---- MODULE Spec2Model ----
(***************************************************************************)
(* Model of the recruiter CRM (src/app.py): the Recruiter dataclass, the   *)
(* RecruiterRepository over one SQLite table "recruiters", the handlers of *)
(* the window (CRMApp) and the DatePicker, and the properties of the       *)
(* insert / update / delete / get / list / migration contract, of the      *)
(* form, the filters and the table of the window, and of the date picker.  *)
(*                                                                         *)
(* Spec is the repository called directly, SpecMigration the repository    *)
(* over the store of an earlier version, SpecApp the program used through  *)
(* its window, SpecDate one date picker.                                   *)
(*                                                                         *)
(* Text values are sequences of Unicode code points, so that str.strip(),  *)
(* SQLite's BINARY comparison and its ORDER BY are computed, not assumed.  *)
(* SQL NULL / Python None is the one-element sequence <<-1>>, which is no  *)
(* text (no code point is negative).                                       *)
(***************************************************************************)
EXTENDS Integers, Sequences, FiniteSets, TLC

\* ------------------------------------------------------------------ bounds
MaxId == 2      \* AUTOINCREMENT ids handed out in one run of the model
MaxTime == 1    \* the last second of the clock (CURRENT_TIMESTAMP)

\* ------------------------------------------------------------------ text
NULL == <<-1>>
EmptyStr == <<>>

\* the characters str.strip() removes
Whitespace == {9, 10, 11, 12, 13, 28, 29, 30, 31, 32, 133, 160}

RECURSIVE lstrip(_)
lstrip(s) ==
    IF s = <<>> THEN s
    ELSE IF Head(s) \in Whitespace THEN lstrip(Tail(s)) ELSE s

RECURSIVE rstrip(_)
rstrip(s) ==
    IF s = <<>> THEN s
    ELSE IF s[Len(s)] \in Whitespace THEN rstrip(SubSeq(s, 1, Len(s) - 1)) ELSE s

\* str.strip()
strip(s) == rstrip(lstrip(s))

\* Python truthiness of a str | None
Truthy(s) == s # NULL /\ s # EmptyStr

\* SQLite BINARY collation on TEXT: a < b
RECURSIVE TextLess(_, _)
TextLess(a, b) ==
    IF b = <<>> THEN FALSE
    ELSE IF a = <<>> THEN TRUE
    ELSE IF Head(a) # Head(b) THEN Head(a) < Head(b)
    ELSE TextLess(Tail(a), Tail(b))

\* ------------------------------------------------------------------ constants
\* "первичный контакт"
DEFAULT_STATUS ==
    <<1087, 1077, 1088, 1074, 1080, 1095, 1085, 1099, 1081, 32,
      1082, 1086, 1085, 1090, 1072, 1082, 1090>>
\* "отказ", the last of STATUS_OPTIONS
STATUS_REJECTED == <<1086, 1090, 1082, 1072, 1079>>
\* "Все", the filter value that selects everything
ALL == <<1042, 1089, 1077>>

\* ------------------------------------------------------------------ schema
BaseCols ==
    {"id", "company", "full_name", "telegram", "phone", "position", "email",
     "comments", "created_at"}
\* the columns _ensure_columns looks for, in its order
OptionalCols == <<"status", "last_contact", "next_step", "resume_path">>
OptionalSet == {OptionalCols[i] : i \in 1..Len(OptionalCols)}
AllCols == BaseCols \cup OptionalSet

\* the fields add() and update() write
MutableFields ==
    {"company", "full_name", "telegram", "phone", "position", "email",
     "comments", "resume_path", "status", "last_contact", "next_step"}

\* Recruiter.id = None
NoneId == -1

\* ------------------------------------------------------------------ Recruiter
\* @dataclass Recruiter with its defaults
Recruiter ==
    [id |-> NoneId, company |-> EmptyStr, full_name |-> EmptyStr,
     telegram |-> EmptyStr, phone |-> EmptyStr, position |-> EmptyStr,
     email |-> EmptyStr, comments |-> EmptyStr, resume_path |-> EmptyStr,
     status |-> DEFAULT_STATUS, last_contact |-> EmptyStr, next_step |-> EmptyStr]

\* Recruiter.from_row: every column is copied as it is, NULL included
from_row(row) ==
    [id |-> row.id,
     company |-> row.company,
     full_name |-> row.full_name,
     telegram |-> row.telegram,
     phone |-> row.phone,
     position |-> row.position,
     email |-> row.email,
     comments |-> row.comments,
     resume_path |-> IF "resume_path" \in DOMAIN row THEN row.resume_path ELSE EmptyStr,
     status |-> row.status,
     last_contact |-> row.last_contact,
     next_step |-> row.next_step]

\* normalized with the comments left as the form's text widget returns them
normalized_raw_comments(self) ==
    [id |-> self.id,
     company |-> strip(self.company),
     full_name |-> strip(self.full_name),
     telegram |-> strip(self.telegram),
     phone |-> strip(self.phone),
     position |-> strip(self.position),
     email |-> strip(self.email),
     comments |-> self.comments,
     resume_path |-> strip(self.resume_path),
     status |-> IF Truthy(self.status) THEN strip(self.status) ELSE DEFAULT_STATUS,
     last_contact |-> strip(self.last_contact),
     next_step |-> strip(self.next_step)]

\* Recruiter.normalized
normalized(self) ==
    [id |-> self.id,
     company |-> strip(self.company),
     full_name |-> strip(self.full_name),
     telegram |-> strip(self.telegram),
     phone |-> strip(self.phone),
     position |-> strip(self.position),
     email |-> strip(self.email),
     comments |-> strip(self.comments),
     resume_path |-> strip(self.resume_path),
     status |-> IF Truthy(self.status) THEN strip(self.status) ELSE DEFAULT_STATUS,
     last_contact |-> strip(self.last_contact),
     next_step |-> strip(self.next_step)]

\* Recruiter.insert_params: asdict(normalized) without "id"
insert_params(self) ==
    LET data == normalized(self) IN [f \in MutableFields |-> data[f]]

\* Recruiter.update_params: asdict(normalized)
update_params(self) == normalized(self)

\* ------------------------------------------------------------------ inputs
A_ == <<65>>                                            \* "A"
a_ == <<97>>                                            \* "a"
J_ == <<74>>                                            \* "J"
Date1 == <<50, 48, 50, 51, 45, 48, 53, 45, 48, 53>>     \* "2023-05-05"
Date2 == <<50, 48, 50, 52, 45, 48, 49, 45, 48, 49>>     \* "2024-01-01"
Blank == <<32>>                                         \* " "

\* Recruiter(company="A", full_name="J")
Plain == [Recruiter EXCEPT !.company = A_, !.full_name = J_]

\* a contact with every field set, each to another text, none of them trimmed
Filled ==
    [id |-> NoneId,
     company |-> <<32>> \o a_,
     full_name |-> J_ \o <<32>>,
     telegram |-> <<32, 64, 116>>,
     phone |-> <<55, 9>>,
     position |-> <<32, 112, 32>>,
     email |-> <<101, 64, 109, 32>>,
     comments |-> <<99, 10>>,
     resume_path |-> <<32, 114>>,
     status |-> <<32>> \o STATUS_REJECTED,
     last_contact |-> Date1 \o <<32>>,
     next_step |-> <<32>> \o Date1]

\* Plain with a padded company and full name and no status
Padded ==
    [Plain EXCEPT !.company = <<32>> \o A_ \o <<32>>, !.full_name = <<9>> \o J_,
                  !.status = EmptyStr]

\* another company, a status of one space
BlankStatus ==
    [Plain EXCEPT !.company = a_, !.status = Blank, !.next_step = Date1 \o <<10>>]

\* a company of one space
NoCompany == [Plain EXCEPT !.company = Blank, !.status = STATUS_REJECTED]

\* no full name, a later next step
NoName == [Plain EXCEPT !.full_name = EmptyStr, !.next_step = <<9>> \o Date2]

\* the contacts handed to add() and update()
Contacts == {Plain, Filled, Padded, BlankStatus, NoCompany, NoName}

\* the ids handed to update(), delete() and get()
Ids == 1..MaxId
\* the filter values fetch() is called with: None, "", "Все" and texts
CompanyFilters == {ALL, a_}
StatusFilters == {EmptyStr, DEFAULT_STATUS}
\* the filter values its results are examined for
AnyCompanyFilter == CompanyFilters \cup {NULL, EmptyStr, A_}
AnyStatusFilter == StatusFilters \cup {NULL, ALL, STATUS_REJECTED}

\* ------------------------------------------------------------------ state
VARIABLES
    open,   \* the repository holds its connection (RecruiterRepository.conn)
    cols,   \* columns of table recruiters; {} while the table does not exist
    rows,   \* the rows of the table: functions from cols to values
    seq,    \* sqlite_sequence of the table (AUTOINCREMENT): largest id ever used
    now,    \* the second CURRENT_TIMESTAMP read when it was last read
    last,   \* the last call of the user or script: what it did and what it left
    form,                   \* CRMApp: the texts of the form's entries and text widget
    current_edit_id,        \* CRMApp.current_edit_id
    current_resume_path,    \* CRMApp.current_resume_path
    filter_var,             \* CRMApp.filter_var
    filter_status_var,      \* CRMApp.filter_status_var
    filter_values,          \* CRMApp.filter_combo["values"]
    tree,                   \* CRMApp.tree: the values of its items, in order
    current,                \* DatePicker.current
    target_var,             \* DatePicker.target_var
    top                     \* DatePicker.top exists (not destroyed)

repo_vars == <<open, cols, rows, seq, now>>
app_vars ==
    <<form, current_edit_id, current_resume_path, filter_var, filter_status_var,
      filter_values, tree>>
picker_vars == <<current, target_var, top>>
vars == <<repo_vars, last, app_vars, picker_vars>>

\* what a call leaves to its caller
Outcome(op, id, res, err) == [op |-> op, id |-> id, res |-> res, err |-> err]

\* ------------------------------------------------------------------ SQL
Max(S) == CHOOSE x \in S : \A y \in S : y <= x

\* INTEGER PRIMARY KEY without AUTOINCREMENT: one more than the largest rowid
\* in the table
NextRowId_max_rowid(table, sequence) == Max({0} \cup {r.id : r \in table}) + 1

\* INTEGER PRIMARY KEY AUTOINCREMENT: one more than the largest id ever used
NextRowId(table, sequence) == Max({sequence} \cup {r.id : r \in table}) + 1

\* INSERT INTO recruiters (<the eleven fields>) VALUES (...)
InsertRow(table, columns, params, id, time) ==
    table \cup
        {[c \in columns |->
            IF c = "id" THEN id
            ELSE IF c = "created_at" THEN time
            ELSE params[c]]}

\* the UPDATE without "resume_path = :resume_path", the column added last
UpdateRows_without_resume_path(table, params) ==
    {IF r.id = params.id
        THEN [c \in DOMAIN r |->
                IF c \in MutableFields \ {"resume_path"} THEN params[c] ELSE r[c]]
        ELSE r
     : r \in table}

\* UPDATE recruiters SET <the eleven fields> WHERE id = :id
UpdateRows(table, params) ==
    {IF r.id = params.id
        THEN [c \in DOMAIN r |-> IF c \in MutableFields THEN params[c] ELSE r[c]]
        ELSE r
     : r \in table}

\* DELETE FROM recruiters WHERE id > ?
DeleteRows_above(table, id) == {r \in table : ~(r.id > id)}

\* DELETE FROM recruiters WHERE id = ?
DeleteRows(table, id) == {r \in table : r.id # id}

\* SELECT * FROM recruiters WHERE id = ?  (fetchone: a list of no or one row)
SelectById(table, id) == {r \in table : r.id = id}

\* CREATE TABLE IF NOT EXISTS recruiters (...)
create_table(columns) == IF columns = {} THEN AllCols ELSE columns

\* _ensure_columns: the ALTER TABLE ... ADD COLUMN statements, in order
RECURSIVE AlterQueries(_, _)
AlterQueries(columns, i) ==
    IF i > Len(OptionalCols) THEN <<>>
    ELSE (IF OptionalCols[i] \notin columns THEN <<OptionalCols[i]>> ELSE <<>>)
         \o AlterQueries(columns, i + 1)

\* the value ADD COLUMN gives the rows that are there: its DEFAULT, or NULL
ColumnDefault(c) == IF c = "status" THEN DEFAULT_STATUS ELSE NULL

\* ALTER TABLE recruiters ADD COLUMN c, one after the other (_ensure_columns
\* names only columns the table lacks)
RECURSIVE AddColumns(_, _)
AddColumns(table, alters) ==
    IF alters = <<>> THEN table
    ELSE AddColumns(
            {[c \in DOMAIN r \cup {Head(alters)} |->
                IF c = Head(alters) THEN ColumnDefault(c) ELSE r[c]] : r \in table},
            Tail(alters))

\* "x = ?" in a WHERE clause: never true of NULL
SqlEq(x, v) == x # NULL /\ x = v

\* fetch without the test for "Все": "if company_filter"
FilterSet_no_sentinel(f) == Truthy(f)

\* fetch: "if company_filter and company_filter != 'Все'" (and the same for status)
FilterSet(f) == Truthy(f) /\ f # ALL

\* fetch: the WHERE clause built from the filters that are set, joined by AND
Where(r, company_filter, status_filter) ==
    /\ FilterSet(company_filter) => SqlEq(r.company, company_filter)
    /\ FilterSet(status_filter) => SqlEq(r.status, status_filter)

\* ORDER BY x ASC on TEXT: NULL sorts before every text
SqlLess(x, y) ==
    IF x = NULL THEN y # NULL
    ELSE IF y = NULL THEN FALSE
    ELSE TextLess(x, y)

\* CASE WHEN next_step IS NULL OR next_step = '' THEN 1 ELSE 0 END
NextStepCase(r) == IF r.next_step = NULL \/ r.next_step = EmptyStr THEN 1 ELSE 0

\* ORDER BY next_step ASC, created_at DESC, without the CASE
OrderBefore_without_case(r1, r2) ==
    \/ SqlLess(r1.next_step, r2.next_step)
    \/ /\ r1.next_step = r2.next_step
       /\ r1.created_at > r2.created_at

\* fetch: ORDER BY <case>, next_step ASC, created_at DESC puts r1 before r2
OrderBefore(r1, r2) ==
    \/ NextStepCase(r1) < NextStepCase(r2)
    \/ /\ NextStepCase(r1) = NextStepCase(r2)
       /\ \/ SqlLess(r1.next_step, r2.next_step)
          \/ /\ r1.next_step = r2.next_step
             /\ r1.created_at > r2.created_at

\* the orders SQLite may return the rows S in: rows the ORDER BY does not tell
\* apart come in any order
RECURSIVE Orderings(_)
Orderings(S) ==
    IF S = {} THEN {<<>>}
    ELSE UNION {{<<m>> \o t : t \in Orderings(S \ {m})}
                : m \in {x \in S : \A y \in S : ~OrderBefore(y, x)}}

\* RecruiterRepository.fetch: the lists it may return
fetch(table, company_filter, status_filter) ==
    {[i \in 1..Len(o) |-> from_row(o[i])]
     : o \in Orderings({r \in table : Where(r, company_filter, status_filter)})}

\* RecruiterRepository.get: <<>> is None
get(table, id) ==
    LET found == SelectById(table, id)
    IN IF found = {} THEN <<>> ELSE <<from_row(CHOOSE r \in found : TRUE)>>

\* SELECT DISTINCT company ... ORDER BY company: the smallest first
RECURSIVE OrderedTexts(_)
OrderedTexts(S) ==
    IF S = {} THEN <<>>
    ELSE LET m == CHOOSE x \in S : \A y \in S : ~TextLess(y, x)
         IN <<m>> \o OrderedTexts(S \ {m})

\* SELECT DISTINCT company COLLATE NOCASE: ASCII letters compare without case
Lower(s) == [i \in 1..Len(s) |-> IF s[i] \in 65..90 THEN s[i] + 32 ELSE s[i]]
get_companies_nocase(table) ==
    LET names == {r.company : r \in table}
        kept == {x \in names : \A y \in names : Lower(y) = Lower(x) => ~TextLess(y, x)}
    IN OrderedTexts(kept)

\* RecruiterRepository.get_companies
get_companies(table) == OrderedTexts({r.company : r \in table})

\* _ensure_columns that does not find "resume_path" among the columns
ensure_columns_resume_unseen(columns) == AlterQueries(columns \ {"resume_path"}, 1)

\* RecruiterRepository._ensure_columns: the statements it executes
ensure_columns(columns) == AlterQueries(columns, 1)

\* ------------------------------------------------------------------ initial states
\* The database file when the program starts: not there, or written by an
\* earlier version of the program, whose table lacks some of OptionalCols and
\* holds no row or one row.
LegacyRow(columns) ==
    LET n == normalized(Filled)
    IN [c \in columns |->
            IF c = "id" THEN 1 ELSE IF c = "created_at" THEN 0 ELSE n[c]]

\* a store of any earlier version
LegacyStores ==
    {[cols |-> BaseCols \cup S, rows |-> {}, seq |-> 0] : S \in SUBSET OptionalSet}
    \cup {[cols |-> BaseCols \cup S, rows |-> {LegacyRow(BaseCols \cup S)}, seq |-> 1]
          : S \in SUBSET OptionalSet}

\* no database file
NoStore == [cols |-> {}, rows |-> {}, seq |-> 0]

\* the first version's store, with one row
OldestStore == [cols |-> BaseCols, rows |-> {LegacyRow(BaseCols)}, seq |-> 1]

\* CRMApp._init_vars and clear_form: the empty form
ClearedForm ==
    [company |-> EmptyStr, full_name |-> EmptyStr, telegram |-> EmptyStr,
     phone |-> EmptyStr, position |-> EmptyStr, email |-> EmptyStr,
     status |-> DEFAULT_STATUS, last_contact |-> EmptyStr, next_step |-> EmptyStr,
     comments |-> EmptyStr]

\* the month a date picker shows when the program starts in November 2026
Today == [year |-> 2026, month |-> 11]

\* no window of the application exists
NoApp ==
    /\ form = ClearedForm
    /\ current_edit_id = NoneId
    /\ current_resume_path = EmptyStr
    /\ filter_var = ALL
    /\ filter_status_var = ALL
    /\ filter_values = <<>>
    /\ tree = <<>>

\* no date picker exists
NoPicker ==
    /\ current = Today
    /\ target_var = EmptyStr
    /\ top = FALSE

InitStore(stores) ==
    /\ open = FALSE
    /\ \E db \in stores : cols = db.cols /\ rows = db.rows /\ seq = db.seq
    /\ now = 0
    /\ last = Outcome("none", NoneId, <<>>, "none")

Init == InitStore({NoStore, OldestStore}) /\ NoApp /\ NoPicker

\* ------------------------------------------------------------------ actions
\* RecruiterRepository.__init__: connect, _create_table, _ensure_columns
Initialize ==
    /\ ~open
    /\ LET created == create_table(cols)
           alter_queries == ensure_columns(created)
       IN /\ cols' = created \cup {alter_queries[i] : i \in 1..Len(alter_queries)}
          /\ rows' = AddColumns(rows, alter_queries)
          /\ last' = Outcome("init", NoneId, alter_queries, "none")
    /\ open' = TRUE
    /\ UNCHANGED <<seq, now>>
    /\ UNCHANGED <<app_vars, picker_vars>>

\* RecruiterRepository.add, called when the clock reads time
Add(recruiter, time) ==
    /\ open
    /\ NextRowId(rows, seq) <= MaxId
    /\ time >= now
    /\ LET id == NextRowId(rows, seq)
       IN /\ rows' = InsertRow(rows, cols, insert_params(recruiter), id, time)
          /\ seq' = id
          /\ last' = Outcome("add", id, <<>>, "none")
    /\ now' = time
    /\ UNCHANGED <<open, cols>>
    /\ UNCHANGED <<app_vars, picker_vars>>

\* RecruiterRepository.update
Update(recruiter) ==
    /\ open
    /\ IF recruiter.id = NoneId
       THEN /\ last' = Outcome("update", NoneId, <<>>, "ValueError")
            /\ UNCHANGED rows
       ELSE /\ rows' = UpdateRows(rows, update_params(recruiter))
            /\ last' = Outcome("update", recruiter.id, <<>>, "none")
    /\ UNCHANGED <<open, cols, seq, now>>
    /\ UNCHANGED <<app_vars, picker_vars>>

\* RecruiterRepository.delete
Delete(recruiter_id) ==
    /\ open
    /\ rows' = DeleteRows(rows, recruiter_id)
    /\ last' = Outcome("delete", recruiter_id, <<>>, "none")
    /\ UNCHANGED <<open, cols, seq, now>>
    /\ UNCHANGED <<app_vars, picker_vars>>

\* RecruiterRepository.get
Get(recruiter_id) ==
    /\ open
    /\ last' = Outcome("get", recruiter_id, get(rows, recruiter_id), "none")
    /\ UNCHANGED <<open, cols, rows, seq, now>>
    /\ UNCHANGED <<app_vars, picker_vars>>

\* RecruiterRepository.fetch
Fetch(company_filter, status_filter) ==
    /\ open
    /\ \E result \in fetch(rows, company_filter, status_filter) :
          last' = Outcome("fetch", NoneId, result, "none")
    /\ UNCHANGED <<open, cols, rows, seq, now>>
    /\ UNCHANGED <<app_vars, picker_vars>>

\* RecruiterRepository.get_companies
GetCompanies ==
    /\ open
    /\ last' = Outcome("get_companies", NoneId, get_companies(rows), "none")
    /\ UNCHANGED <<open, cols, rows, seq, now>>
    /\ UNCHANGED <<app_vars, picker_vars>>

\* RecruiterRepository.close
Close ==
    /\ open
    /\ open' = FALSE
    /\ last' = Outcome("close", NoneId, <<>>, "none")
    /\ UNCHANGED <<cols, rows, seq, now>>
    /\ UNCHANGED <<app_vars, picker_vars>>

Next ==
    \/ Initialize
    \/ \E c \in Contacts, t \in 0..MaxTime : Add(c, t)
    \/ \E c \in Contacts, i \in Ids \cup {NoneId} : Update([c EXCEPT !.id = i])
    \/ \E i \in Ids : Delete(i)
    \/ \E i \in Ids : Get(i)
    \/ \E cf \in CompanyFilters, sf \in StatusFilters : Fetch(cf, sf)
    \/ GetCompanies
    \/ Close

Spec == Init /\ [][Next]_vars

\* the table has every column while the repository is open
TypeOK ==
    /\ open \in BOOLEAN
    /\ open => cols = AllCols
    /\ \A r \in rows : DOMAIN r = cols /\ r.id \in 1..seq
    /\ \A r1, r2 \in rows : r1.id = r2.id => r1 = r2
    /\ now \in 0..MaxTime

\* ------------------------------------------------------------------ migration
\* The same repository over the store of any earlier version: every subset of
\* OptionalCols may be missing.
MigrationContacts == {Plain, Filled}

InitMigration == InitStore(LegacyStores \cup {NoStore}) /\ NoApp /\ NoPicker

NextMigration ==
    \/ Initialize
    \/ \E c \in MigrationContacts, t \in 0..MaxTime : Add(c, t)
    \/ \E i \in Ids : Delete(i)
    \/ \E i \in Ids : Get(i)
    \/ Fetch(NULL, EmptyStr)
    \/ Close

SpecMigration == InitMigration /\ [][NextMigration]_vars

\* ------------------------------------------------------------------ CRMApp
COMMENT_PREVIEW_LIMIT == 120

\* x or ""
OrEmpty(x) == IF Truthy(x) THEN x ELSE EmptyStr

\* Recruiter.comment_preview
comment_preview(self) ==
    IF ~Truthy(self.comments) THEN EmptyStr
    ELSE IF Len(self.comments) > COMMENT_PREVIEW_LIMIT
         THEN SubSeq(self.comments, 1, COMMENT_PREVIEW_LIMIT) \o <<46, 46, 46>>
         ELSE self.comments

\* CRMApp._insert_tree_row: the values of the item shown for a recruiter
tree_values(recruiter) ==
    [id |-> recruiter.id,
     company |-> recruiter.company,
     full_name |-> recruiter.full_name,
     telegram |-> recruiter.telegram,
     phone |-> recruiter.phone,
     position |-> recruiter.position,
     email |-> recruiter.email,
     status |-> OrEmpty(recruiter.status),
     last_contact |-> OrEmpty(recruiter.last_contact),
     next_step |-> OrEmpty(recruiter.next_step),
     comments |-> comment_preview(recruiter)]

\* CRMApp._refresh_table: the items of the tree for a list fetch() returned
tree_items(result) == [i \in 1..Len(result) |-> tree_values(result[i])]

\* the elements of a list
Elems(list) == {list[i] : i \in 1..Len(list)}

\* CRMApp._refresh_company_filter: the values of the company combobox
company_values(table) == <<ALL>> \o get_companies(table)

\* CRMApp._refresh_company_filter: the filter kept, or "Все" when the values
\* no longer hold it
company_filter(table, value) ==
    IF value \in Elems(company_values(table)) THEN value ELSE ALL

\* CRMApp._get_recruiter_from_form; tk.Text.get("1.0", tk.END) ends with a
\* newline
get_recruiter_from_form(include_id) ==
    normalized(
        [id |-> IF include_id THEN current_edit_id ELSE NoneId,
         company |-> form.company,
         full_name |-> form.full_name,
         telegram |-> form.telegram,
         phone |-> form.phone,
         position |-> form.position,
         email |-> form.email,
         comments |-> form.comments \o <<10>>,
         resume_path |-> current_resume_path,
         status |-> IF Truthy(form.status) THEN form.status ELSE DEFAULT_STATUS,
         last_contact |-> form.last_contact,
         next_step |-> form.next_step])

\* _validate_required without its check of full_name
validate_required_company_only(recruiter) == Truthy(recruiter.company)

\* CRMApp._validate_required
validate_required(recruiter) == Truthy(recruiter.company) /\ Truthy(recruiter.full_name)

\* CRMApp._get_selected_recruiter for the selected item: the stored row of its
\* id, or a Recruiter of the item's values when no row has the id
get_selected_recruiter(item) ==
    LET values == tree[item]
        found == IF values.id # 0 THEN get(rows, values.id) ELSE <<>>
    IN IF found # <<>>
       THEN found[1]
       ELSE [Recruiter EXCEPT
                !.id = values.id, !.company = values.company,
                !.full_name = values.full_name, !.telegram = values.telegram,
                !.phone = values.phone, !.position = values.position,
                !.email = values.email, !.status = values.status,
                !.last_contact = values.last_contact,
                !.next_step = values.next_step, !.comments = values.comments]

\* what the user types into the form: a padded company; every kind of field
\* set; a company of one space; no full name
TypedA == [ClearedForm EXCEPT !.company = <<32>> \o A_, !.full_name = J_]
TypedB ==
    [ClearedForm EXCEPT !.company = a_, !.full_name = J_ \o <<32>>,
                        !.status = STATUS_REJECTED, !.next_step = Date1,
                        !.comments = <<99>>]
TypedNoCompany == [ClearedForm EXCEPT !.company = Blank, !.full_name = J_]
TypedNoName == [ClearedForm EXCEPT !.company = A_]
FormInputs == {TypedA, TypedB, TypedNoCompany, TypedNoName}

\* the values the user picks in the status filter, of "Все" and STATUS_OPTIONS
StatusChoices == {ALL, STATUS_REJECTED}

\* CRMApp.__init__: the repository, _init_vars, _refresh_company_filter,
\* _refresh_table
CRMApp_init ==
    /\ ~open
    /\ LET created == create_table(cols)
           alter_queries == ensure_columns(created)
           table == AddColumns(rows, alter_queries)
       IN /\ cols' = created \cup Elems(alter_queries)
          /\ rows' = table
          /\ filter_values' = company_values(table)
          /\ filter_var' = company_filter(table, ALL)
          /\ \E result \in fetch(table, company_filter(table, ALL), ALL) :
                tree' = tree_items(result)
    /\ open' = TRUE
    /\ form' = ClearedForm
    /\ current_edit_id' = NoneId
    /\ current_resume_path' = EmptyStr
    /\ filter_status_var' = ALL
    /\ last' = Outcome("__init__", NoneId, <<>>, "none")
    /\ UNCHANGED <<seq, now, picker_vars>>

\* the user types into the entries and the text widget of the form
type_form(input) ==
    /\ open
    /\ form' = input
    /\ UNCHANGED <<repo_vars, last, current_edit_id, current_resume_path, filter_var,
                   filter_status_var, filter_values, tree, picker_vars>>

\* the user picks a value of the company combobox
select_company(value) ==
    /\ open
    /\ value \in Elems(filter_values)
    /\ filter_var' = value
    /\ UNCHANGED <<repo_vars, last, form, current_edit_id, current_resume_path,
                   filter_status_var, filter_values, tree, picker_vars>>

\* the user picks a value of the status combobox
select_status(value) ==
    /\ open
    /\ filter_status_var' = value
    /\ UNCHANGED <<repo_vars, last, form, current_edit_id, current_resume_path,
                   filter_var, filter_values, tree, picker_vars>>

\* CRMApp.add_recruiter, the clock reading time
add_recruiter(time) ==
    /\ open
    /\ LET recruiter == get_recruiter_from_form(FALSE)
       IN IF ~validate_required(recruiter)
          THEN /\ last' = Outcome("add_recruiter", NoneId, <<>>, "showwarning")
               /\ UNCHANGED <<repo_vars, app_vars>>
          ELSE /\ NextRowId(rows, seq) <= MaxId
               /\ time >= now
               /\ LET id == NextRowId(rows, seq)
                      table == InsertRow(rows, cols, insert_params(recruiter), id, time)
                  IN /\ rows' = table
                     /\ seq' = id
                     /\ now' = time
                     \* clear_form
                     /\ form' = ClearedForm
                     /\ current_edit_id' = NoneId
                     /\ current_resume_path' = EmptyStr
                     \* _refresh_company_filter, then _refresh_table
                     /\ filter_values' = company_values(table)
                     /\ filter_var' = company_filter(table, filter_var)
                     /\ \E result \in fetch(table, company_filter(table, filter_var),
                                            filter_status_var) :
                            tree' = tree_items(result)
                     /\ last' = Outcome("add_recruiter", id, <<>>, "showinfo")
               /\ UNCHANGED <<open, cols, filter_status_var>>
    /\ UNCHANGED picker_vars

\* CRMApp.save_edit
save_edit ==
    /\ open
    /\ IF current_edit_id = NoneId \/ current_edit_id = 0
       THEN /\ last' = Outcome("save_edit", NoneId, <<>>, "showinfo: select")
            /\ UNCHANGED <<repo_vars, app_vars>>
       ELSE LET recruiter == get_recruiter_from_form(TRUE)
            IN IF ~validate_required(recruiter)
               THEN /\ last' = Outcome("save_edit", recruiter.id, <<>>, "showwarning")
                    /\ UNCHANGED <<repo_vars, app_vars>>
               ELSE LET table == UpdateRows(rows, update_params(recruiter))
                    IN /\ rows' = table
                       \* clear_form
                       /\ form' = ClearedForm
                       /\ current_edit_id' = NoneId
                       /\ current_resume_path' = EmptyStr
                       \* _refresh_company_filter, then _refresh_table
                       /\ filter_values' = company_values(table)
                       /\ filter_var' = company_filter(table, filter_var)
                       /\ \E result \in fetch(table, company_filter(table, filter_var),
                                              filter_status_var) :
                              tree' = tree_items(result)
                       /\ last' = Outcome("save_edit", recruiter.id, <<>>, "showinfo")
                       /\ UNCHANGED <<open, cols, seq, now, filter_status_var>>
    /\ UNCHANGED picker_vars

\* CRMApp.clear_form
clear_form ==
    /\ open
    /\ form' = ClearedForm
    /\ current_edit_id' = NoneId
    /\ current_resume_path' = EmptyStr
    /\ last' = Outcome("clear_form", NoneId, <<>>, "none")
    /\ UNCHANGED <<repo_vars, filter_var, filter_status_var, filter_values, tree,
                   picker_vars>>

\* CRMApp._refresh_company_filter, from its button
refresh_company_filter ==
    /\ open
    /\ filter_values' = company_values(rows)
    /\ filter_var' = company_filter(rows, filter_var)
    /\ last' = Outcome("_refresh_company_filter", NoneId, <<>>, "none")
    /\ UNCHANGED <<repo_vars, form, current_edit_id, current_resume_path,
                   filter_status_var, tree, picker_vars>>

\* CRMApp._refresh_table, from its button
refresh_table ==
    /\ open
    /\ \E result \in fetch(rows, filter_var, filter_status_var) :
          tree' = tree_items(result)
    /\ last' = Outcome("_refresh_table", NoneId, <<>>, "none")
    /\ UNCHANGED <<repo_vars, form, current_edit_id, current_resume_path,
                   filter_var, filter_status_var, filter_values, picker_vars>>

\* CRMApp.on_tree_double_click on a cell of the item, not of its telegram or
\* email column: _get_selected_recruiter, _fill_form
fill_form(item) ==
    /\ open
    /\ item \in 1..Len(tree)
    /\ LET recruiter == get_selected_recruiter(item)
       IN /\ current_edit_id' = recruiter.id
          /\ current_resume_path' = recruiter.resume_path
          /\ form' =
                [company |-> recruiter.company,
                 full_name |-> recruiter.full_name,
                 telegram |-> recruiter.telegram,
                 phone |-> recruiter.phone,
                 position |-> recruiter.position,
                 email |-> recruiter.email,
                 status |-> IF Truthy(recruiter.status)
                            THEN recruiter.status ELSE DEFAULT_STATUS,
                 last_contact |-> OrEmpty(recruiter.last_contact),
                 next_step |-> OrEmpty(recruiter.next_step),
                 comments |-> OrEmpty(recruiter.comments)]
          /\ last' = Outcome("_fill_form", recruiter.id, <<>>, "none")
    /\ UNCHANGED <<repo_vars, filter_var, filter_status_var, filter_values, tree,
                   picker_vars>>

\* CRMApp.delete_recruiter with the item selected (0: none) and the user's
\* answer to the question
delete_recruiter(item, confirm) ==
    /\ open
    /\ item \in 0..Len(tree)
    /\ IF item = 0
       THEN /\ last' = Outcome("delete_recruiter", NoneId, <<>>, "showwarning")
            /\ UNCHANGED <<repo_vars, app_vars>>
       ELSE LET recruiter == get_selected_recruiter(item)
            IN IF ~confirm
               THEN /\ last' = Outcome("delete_recruiter", recruiter.id, <<>>, "askyesno: no")
                    /\ UNCHANGED <<repo_vars, app_vars>>
               ELSE LET table == DeleteRows(rows, recruiter.id)
                    IN /\ rows' = table
                       \* _refresh_table, then _refresh_company_filter
                       /\ \E result \in fetch(table, filter_var, filter_status_var) :
                              tree' = tree_items(result)
                       /\ filter_values' = company_values(table)
                       /\ filter_var' = company_filter(table, filter_var)
                       /\ last' = Outcome("delete_recruiter", recruiter.id, <<>>, "none")
                       /\ UNCHANGED <<open, cols, seq, now, form, current_edit_id,
                                      current_resume_path, filter_status_var>>
    /\ UNCHANGED picker_vars

\* CRMApp._on_close: the repository is closed, the window and its variables
\* are destroyed
on_close ==
    /\ open
    /\ open' = FALSE
    /\ form' = ClearedForm
    /\ current_edit_id' = NoneId
    /\ current_resume_path' = EmptyStr
    /\ filter_var' = ALL
    /\ filter_status_var' = ALL
    /\ filter_values' = <<>>
    /\ tree' = <<>>
    /\ last' = Outcome("_on_close", NoneId, <<>>, "none")
    /\ UNCHANGED <<cols, rows, seq, now, picker_vars>>

\* the program started with no database file and used through its window;
\* the confirmation of an added recruiter takes the user into the next second
InitApp == InitStore({NoStore}) /\ NoApp /\ NoPicker

NextApp ==
    \/ CRMApp_init
    \/ \E input \in FormInputs : type_form(input)
    \/ \E value \in {ALL, A_, a_} : select_company(value)
    \/ \E value \in StatusChoices : select_status(value)
    \/ add_recruiter(now + 1)
    \/ save_edit
    \/ clear_form
    \/ refresh_company_filter
    \/ refresh_table
    \/ \E item \in 1..MaxId : fill_form(item)
    \/ \E item \in 0..MaxId, confirm \in BOOLEAN : delete_recruiter(item, confirm)
    \/ on_close

SpecApp == InitApp /\ [][NextApp]_vars

\* ------------------------------------------------------------------ DatePicker
\* the years before and after today's that the user browses
MaxYears == 1

\* DatePicker._prev_month: the month shown after "<"
prev_month(cur) ==
    IF cur.month = 1
    THEN [year |-> cur.year - 1, month |-> 12]
    ELSE [year |-> cur.year, month |-> cur.month - 1]

\* _next_month that keeps the year when it leaves December
next_month_same_year(cur) ==
    IF cur.month = 12
    THEN [year |-> cur.year, month |-> 1]
    ELSE [year |-> cur.year, month |-> cur.month + 1]

\* DatePicker._next_month: the month shown after ">"
next_month(cur) ==
    IF cur.month = 12
    THEN [year |-> cur.year + 1, month |-> 1]
    ELSE [year |-> cur.year, month |-> cur.month + 1]

\* calendar.monthcalendar: the number of day buttons of a month
IsLeap(year) == year % 4 = 0 /\ (year % 100 # 0 \/ year % 400 = 0)
DaysIn(cur) ==
    IF cur.month = 2 THEN (IF IsLeap(cur.year) THEN 29 ELSE 28)
    ELSE IF cur.month \in {4, 6, 9, 11} THEN 30 ELSE 31

\* str(n) of a number that is not negative
RECURSIVE Decimal(_)
Decimal(n) == IF n < 10 THEN <<48 + n>> ELSE Decimal(n \div 10) \o <<48 + (n % 10)>>

\* f"{n:0{width}d}" of a number that is not negative
RECURSIVE ZeroPad(_, _)
ZeroPad(digits, width) ==
    IF Len(digits) >= width THEN digits ELSE ZeroPad(<<48>> \o digits, width)
Format(n, width) == ZeroPad(Decimal(n), width)

\* DatePicker._select_date: date_str
date_str(cur, day) ==
    Format(cur.year, 4) \o <<45>> \o Format(cur.month, 2) \o <<45>> \o Format(day, 2)

\* the day buttons the user presses: the first, the last one-digit and the
\* first two-digit day, the last day of the month
Days(cur) == {1, 9, 10, DaysIn(cur)}

\* DatePicker.open / __init__ for an entry of the form
DatePicker_open ==
    /\ ~top
    /\ top' = TRUE
    /\ current' = Today
    /\ UNCHANGED <<repo_vars, last, app_vars, target_var>>

\* DatePicker._prev_month
DatePicker_prev_month ==
    /\ top
    /\ prev_month(current).year >= Today.year - MaxYears
    /\ current' = prev_month(current)
    /\ UNCHANGED <<repo_vars, last, app_vars, target_var, top>>

\* DatePicker._next_month
DatePicker_next_month ==
    /\ top
    /\ next_month(current).year <= Today.year + MaxYears
    /\ current' = next_month(current)
    /\ UNCHANGED <<repo_vars, last, app_vars, target_var, top>>

\* DatePicker._select_date
DatePicker_select_date(day) ==
    /\ top
    /\ target_var' = date_str(current, day)
    /\ top' = FALSE
    /\ UNCHANGED <<repo_vars, last, app_vars, current>>

\* a date picker opened, browsed and closed by a pick, again and again
InitDate == InitStore({NoStore}) /\ NoApp /\ NoPicker

NextDate ==
    \/ DatePicker_open
    \/ DatePicker_prev_month
    \/ DatePicker_next_month
    \/ \E day \in Days(current) : DatePicker_select_date(day)

SpecDate == InitDate /\ [][NextDate]_vars

\* ------------------------------------------------------------------ properties
\* t is s without its leading and trailing whitespace
IsStripped(t, s) ==
    /\ Len(t) <= Len(s)
    /\ t # <<>> => t[1] \notin Whitespace /\ t[Len(t)] \notin Whitespace
    /\ \E i \in 1..(Len(s) - Len(t) + 1) :
        /\ \A k \in 1..(i - 1) : s[k] \in Whitespace
        /\ \A k \in (i + Len(t))..Len(s) : s[k] \in Whitespace
        /\ t = SubSeq(s, i, i + Len(t) - 1)

\* record r holds the fields of contact c as a write stores them: each text
\* without leading and trailing whitespace, the default status for no status
SavedAs(r, c) ==
    \A f \in MutableFields :
        IF f = "status" /\ c.status = EmptyStr
        THEN r[f] = DEFAULT_STATUS
        ELSE IsStripped(r[f], c[f])

\* the row with this id
RowOf(table, id) == CHOOSE r \in table : r.id = id
HasRow(table, id) == \E r \in table : r.id = id

\* C1 as stated: after add(c) with non-empty company and full_name, get() of
\* the new id returns a contact equal to c in every field but id (a Recruiter
\* has no created_at).
C1_RoundTripVerbatim ==
    [][\A c \in Contacts, t \in 0..MaxTime :
        (last'.op = "add" /\ c.company # EmptyStr /\ c.full_name # EmptyStr /\ Add(c, t))
            => get(rows', last'.id) = <<[c EXCEPT !.id = last'.id]>>]_vars

\* C1 amended: after add(c) with non-empty company and full_name, get() of the
\* new id returns one contact, with that id, whose every other field is c's
\* field without leading and trailing whitespace (the default status for an
\* empty status).
C1_RoundTripNormalized ==
    [][\A c \in Contacts, t \in 0..MaxTime :
        (last'.op = "add" /\ c.company # EmptyStr /\ c.full_name # EmptyStr /\ Add(c, t))
            => LET found == get(rows', last'.id)
               IN /\ Len(found) = 1
                  /\ found[1].id = last'.id
                  /\ SavedAs(found[1], c)]_vars

\* C1 witness: the contact Filled, none of whose fields is trimmed, was added
\* and is read back
C1_Witness ==
    /\ last.op = "add"
    /\ get(rows, last.id) # <<>>
    /\ get(rows, last.id)[1].telegram = <<64, 116>>
    /\ get(rows, last.id)[1].comments = <<99>>

\* C2 as stated: add() of a contact whose company or full_name is empty after
\* trimming fails with a ValidationError and writes nothing.
C2_AddRejectsEmptyRequired ==
    [][\A c \in Contacts, t \in 0..MaxTime :
        (/\ last'.op = "add"
         /\ IsStripped(EmptyStr, c.company) \/ IsStripped(EmptyStr, c.full_name)
         /\ Add(c, t))
            => last'.err = "ValidationError" /\ rows' = rows]_vars

\* C3: after delete(id), get(id) returns None; a delete of an id no row has
\* (a second delete among them) raises nothing and leaves the rows as they are.
C3_DeleteThenGet ==
    [][\A i \in Ids :
        (last'.op = "delete" /\ last'.id = i /\ Delete(i)) =>
            /\ get(rows', i) = <<>>
            /\ last'.err = "none"
            /\ ~HasRow(rows, i) => rows' = rows]_vars

\* C3 witness: an id that was handed out has been deleted and is not found
C3_Witness ==
    /\ last.op = "delete"
    /\ last.id \in 1..seq
    /\ get(rows, last.id) = <<>>
    /\ rows # {}

\* a is before b in the order of their code points
LexLess(a, b) ==
    \E k \in 1..(Len(a) + 1) :
        /\ \A m \in 1..(k - 1) : m <= Len(b) /\ a[m] = b[m]
        /\ IF k > Len(a) THEN k <= Len(b) ELSE k <= Len(b) /\ a[k] < b[k]

\* an empty or NULL next_step
NoNextStep(x) == x = NULL \/ x = EmptyStr

\* C4: in every list fetch() returns, for every store and every filter, a row
\* with a next_step is before every row without one, the rows with a next_step
\* are in ascending order of it, and rows of the same next_step are in
\* descending order of created_at.
C4_FetchOrder ==
    open =>
        \A cf \in CompanyFilters, sf \in StatusFilters :
            \A res \in fetch(rows, cf, sf) :
                \A i, j \in 1..Len(res) :
                    i < j =>
                        LET x == res[i]
                            y == res[j]
                        IN /\ ~(NoNextStep(x.next_step) /\ ~NoNextStep(y.next_step))
                           /\ (~NoNextStep(x.next_step) /\ ~NoNextStep(y.next_step))
                                => ~LexLess(y.next_step, x.next_step)
                           /\ x.next_step = y.next_step
                                => RowOf(rows, x.id).created_at >= RowOf(rows, y.id).created_at

\* C4 witness: fetch() returned a row with a next_step before an older row
\* without one
C4_Witness ==
    /\ last.op = "fetch"
    /\ Len(last.res) = 2
    /\ ~NoNextStep(last.res[1].next_step)
    /\ NoNextStep(last.res[2].next_step)
    /\ last.res[1].id > last.res[2].id

\* the filter value excludes nothing: None, "" or "Все"
NoFilter(f) == f = NULL \/ f = EmptyStr \/ f = ALL

\* C5: every list fetch(company_filter, status_filter) returns holds each row
\* that passes the filters once, as from_row reads it, and no other row; a
\* filter of None, "" or "Все" lets every row pass, another one the rows whose
\* company (status) equals it.
C5_FetchFilters ==
    open =>
        \A cf \in AnyCompanyFilter, sf \in AnyStatusFilter :
            LET passing ==
                    {r \in rows : /\ NoFilter(cf) \/ r.company = cf
                                  /\ NoFilter(sf) \/ r.status = sf}
            IN \A res \in fetch(rows, cf, sf) :
                /\ Len(res) = Cardinality(passing)
                /\ {res[i] : i \in 1..Len(res)} = {from_row(r) : r \in passing}

\* C5 witness: fetch() with the default status as filter returned the one row
\* of two that has it
C5_Witness ==
    /\ last.op = "fetch"
    /\ Cardinality(rows) = 2
    /\ Len(last.res) = 1
    /\ last.res[1].status = DEFAULT_STATUS
    /\ \E r \in rows : r.status = STATUS_REJECTED

\* C6 as stated: add() and update() of a contact whose status is empty or only
\* whitespace store the default status, and no stored row has an empty status.
C6_BlankStatusStoredAsDefault ==
    [][/\ \A c \in Contacts, t \in 0..MaxTime :
            (last'.op = "add" /\ IsStripped(EmptyStr, c.status) /\ Add(c, t))
                => RowOf(rows', last'.id).status = DEFAULT_STATUS
       /\ \A c \in Contacts, i \in Ids :
            (/\ last'.op = "update" /\ last'.id = i /\ HasRow(rows, i)
             /\ IsStripped(EmptyStr, c.status)
             /\ Update([c EXCEPT !.id = i]))
                => RowOf(rows', i).status = DEFAULT_STATUS
       /\ \A r \in rows' : "status" \in DOMAIN r => r.status # EmptyStr]_vars

\* C7: __init__ on a store whose table has every column executes no ALTER
\* TABLE and leaves the columns and the rows as they are.
C7_InitializeIdempotent ==
    [][(last'.op = "init" /\ AllCols \subseteq cols /\ Initialize)
        => /\ last'.res = <<>>
           /\ cols' = cols
           /\ rows' = rows]_vars

\* C7 witness: __init__ ran on a table that held a row and altered nothing
C7_Witness ==
    /\ last.op = "init"
    /\ last.res = <<>>
    /\ rows # {}

\* C8 as stated: __init__ on a table that lacks some of OptionalCols adds the
\* missing columns and no other, keeps every value of the columns that were
\* there, and get() then reads the new columns of the old rows as "" (status
\* as the default status).
C8_MigrationReadsEmpty ==
    [][(last'.op = "init" /\ cols # {} /\ Initialize)
        => /\ cols' = cols \cup OptionalSet
           /\ {last'.res[i] : i \in 1..Len(last'.res)} = OptionalSet \ cols
           /\ \A r \in rows :
                /\ HasRow(rows', r.id)
                /\ \A c \in cols : RowOf(rows', r.id)[c] = r[c]
                /\ \A c \in OptionalSet \ cols :
                    get(rows', r.id)[1][c]
                        = IF c = "status" THEN DEFAULT_STATUS ELSE EmptyStr]_vars

\* C9: get_companies() returns the companies of the stored rows, each once,
\* in ascending order; texts that differ in case are different companies.
C9_DistinctCompanies ==
    open =>
        LET companies == get_companies(rows)
        IN /\ {companies[i] : i \in 1..Len(companies)} = {r.company : r \in rows}
           /\ \A i, j \in 1..Len(companies) :
                i < j => LexLess(companies[i], companies[j])

\* C9 witness: get_companies() returned "A" and "a" as two companies
C9_Witness ==
    /\ last.op = "get_companies"
    /\ last.res = <<A_, a_>>

\* what update() of a stored row leaves alone: its id and created_at, every
\* other row, the number of rows
UpdateFrame(i) ==
    /\ HasRow(rows', i)
    /\ RowOf(rows', i).id = RowOf(rows, i).id
    /\ RowOf(rows', i).created_at = RowOf(rows, i).created_at
    /\ \A r \in rows : r.id # i => r \in rows'
    /\ Cardinality(rows') = Cardinality(rows)

\* C10 as stated: update(c) with the id of a stored row sets each of the eleven
\* fields of that row to c's value and leaves alone the row's id and
\* created_at, every other row and the number of rows.
C10_UpdateVerbatim ==
    [][\A c \in Contacts, i \in Ids :
        (/\ last'.op = "update" /\ last'.id = i /\ HasRow(rows, i)
         /\ Update([c EXCEPT !.id = i]))
            => /\ UpdateFrame(i)
               /\ \A f \in MutableFields : RowOf(rows', i)[f] = c[f]]_vars

\* C10 amended: update(c) with the id of a stored row sets each of the eleven
\* fields of that row to c's value without its leading and trailing
\* whitespace (the default status for an empty status) and leaves alone the
\* row's id and created_at, every other row and the number of rows.
C10_UpdateNormalized ==
    [][\A c \in Contacts, i \in Ids :
        (/\ last'.op = "update" /\ last'.id = i /\ HasRow(rows, i)
         /\ Update([c EXCEPT !.id = i]))
            => /\ UpdateFrame(i)
               /\ SavedAs(RowOf(rows', i), c)]_vars

\* C10 witness: the older of two rows was updated to the contact Filled
C10_Witness ==
    /\ last.op = "update"
    /\ Cardinality(rows) = 2
    /\ HasRow(rows, last.id)
    /\ RowOf(rows, last.id).email = <<101, 64, 109>>
    /\ RowOf(rows, last.id).resume_path = <<114>>
    /\ \E r \in rows : r.id > last.id

\* C11 as stated: update(c) with an id no stored row has fails with a
\* not-found error reported to the caller and leaves every stored row
\* unchanged.
C11_UpdateUnknownIdFails ==
    [][\A c \in Contacts, i \in Ids :
        (/\ last'.op = "update" /\ last'.id = i /\ ~HasRow(rows, i)
         /\ Update([c EXCEPT !.id = i]))
            => /\ last'.err = "NotFoundError"
               /\ rows' = rows]_vars

\* C12: no two stored rows share an id, and over any sequence of add() and
\* delete() (of the row of the highest id, of every row) each add() assigns an
\* id greater than every id assigned before it: seq, the largest id assigned
\* so far, never decreases, bounds the id of every stored row, and is exceeded
\* by each newly assigned id.
C12_IdsNeverReused ==
    [][/\ \A r1, r2 \in rows' : r1.id = r2.id => r1 = r2
       /\ seq' >= seq
       /\ \A r \in rows' : r.id <= seq'
       /\ \A c \in Contacts, t \in 0..MaxTime :
            (last'.op = "add" /\ Add(c, t))
                => /\ last'.id > seq
                   /\ \A r \in rows : last'.id > r.id
                   /\ HasRow(rows', last'.id)
                   /\ Cardinality(rows') = Cardinality(rows) + 1]_vars

\* C12 witness: add() assigned an id above 1 to the only row of the table,
\* every row of a lower id having been deleted before
C12_Witness ==
    /\ last.op = "add"
    /\ last.id > 1
    /\ \A r \in rows : r.id = last.id
    /\ rows # {}

\* C14 as stated: after add(c) and after update(c) of a stored row, each text
\* field of the written row has no leading or trailing whitespace, and
\* normalizing the normalized contact changes nothing.
C14_WritesTrimAndIdempotent ==
    [][/\ \A c \in Contacts, t \in 0..MaxTime :
            (last'.op = "add" /\ Add(c, t))
                => /\ \A f \in MutableFields :
                        IsStripped(RowOf(rows', last'.id)[f], RowOf(rows', last'.id)[f])
                   /\ normalized(normalized(c)) = normalized(c)
       /\ \A c \in Contacts, i \in Ids :
            (/\ last'.op = "update" /\ last'.id = i /\ HasRow(rows, i)
             /\ Update([c EXCEPT !.id = i]))
                => /\ \A f \in MutableFields :
                        IsStripped(RowOf(rows', i)[f], RowOf(rows', i)[f])
                   /\ normalized(normalized(c)) = normalized(c)]_vars

\* the form's company or full name is empty or only whitespace
RequiredMissing(f) == IsStripped(EmptyStr, f.company) \/ IsStripped(EmptyStr, f.full_name)

\* C13: in the program used through its window from an empty store, every
\* stored row has a non-empty company and full_name after every step, and
\* add_recruiter and save_edit on a form whose company or full_name is empty
\* or only whitespace show a warning and insert and update nothing.
C13_RequiredFields ==
    [][/\ \A r \in rows' :
            /\ r.company # NULL /\ ~IsStripped(EmptyStr, r.company)
            /\ r.full_name # NULL /\ ~IsStripped(EmptyStr, r.full_name)
       /\ (last'.op = "add_recruiter" /\ RequiredMissing(form) /\ add_recruiter(now + 1))
            => /\ rows' = rows
               /\ seq' = seq
               /\ last'.err = "showwarning"
       /\ (/\ last'.op = "save_edit" /\ RequiredMissing(form)
           /\ current_edit_id # NoneId /\ save_edit)
            => /\ rows' = rows
               /\ last'.err = "showwarning"]_vars

\* C13 witness: save_edit was refused for the form of a stored row whose
\* full name had been erased
C13_Witness ==
    /\ last.op = "save_edit"
    /\ last.err = "showwarning"
    /\ HasRow(rows, current_edit_id)
    /\ form.company = A_
    /\ form.full_name = EmptyStr

\* the tree shows a list fetch() returns for the filters the window holds
TreeShowsFetch(table, items, company, status) ==
    \E result \in fetch(table, company, status) :
        /\ Len(items) = Len(result)
        /\ \A i \in 1..Len(result) : items[i] = tree_values(result[i])

\* C15 as stated: after add_recruiter, save_edit and delete_recruiter complete
\* successfully, the items of the tree are fetch(filter_var,
\* filter_status_var) for the filter values the window then holds, also when
\* the action removed the selected company and the filter went back to "Все".
C15_TableShowsFilteredRows ==
    [][(\/ last'.op = "add_recruiter" /\ last'.err = "showinfo" /\ add_recruiter(now + 1)
        \/ last'.op = "save_edit" /\ last'.err = "showinfo" /\ save_edit
        \/ /\ last'.op = "delete_recruiter" /\ last'.err = "none"
           /\ \E item \in 1..MaxId : delete_recruiter(item, TRUE))
            => TreeShowsFetch(rows', tree', filter_var', filter_status_var')]_vars

\* C16 as stated: whenever current_edit_id is set, a stored row has that id,
\* and when save_edit reports success the row of that id holds the form's
\* normalized values.
C16_EditTargetsStoredRow ==
    [][/\ current_edit_id' # NoneId => HasRow(rows', current_edit_id')
       /\ (last'.op = "save_edit" /\ last'.err = "showinfo" /\ save_edit)
            => /\ HasRow(rows', current_edit_id)
               /\ SavedAs(RowOf(rows', current_edit_id),
                          [id |-> current_edit_id,
                           company |-> form.company,
                           full_name |-> form.full_name,
                           telegram |-> form.telegram,
                           phone |-> form.phone,
                           position |-> form.position,
                           email |-> form.email,
                           comments |-> form.comments \o <<10>>,
                           resume_path |-> current_resume_path,
                           status |-> form.status,
                           last_contact |-> form.last_contact,
                           next_step |-> form.next_step])]_vars

====
